---- MODULE Spec2Model ----
(***************************************************************************)
(* State machine of the pixel-claude CLI server: StateMachine              *)
(* (packages/cli/src/stateMachine.ts), the hook classifier handleHookEvent *)
(* and the HTTP / WebSocket hub createServers (packages/cli/src/server.ts).*)
(*                                                                         *)
(* Time is the value Date.now() returns, in milliseconds, counted from the *)
(* construction of the StateMachine.  Handlers run to completion, so one   *)
(* action is one handler and reads one value of the clock.                 *)
(***************************************************************************)
EXTENDS Integers, Sequences, FiniteSets, TLC

(* ---------------------------------------------------------------------- *)
(* Bounds of the model                                                     *)
(* ---------------------------------------------------------------------- *)
\* the clock advances in steps of TimeStep ms (never past a due timer)
TimeStep == 500
\* the clock stops at MaxTime ms
MaxTime == 30000
\* emit() and onChange() are called up to this instant
MaxEventTime == 3000
\* hook events arrive up to this instant
MaxHookTime == 500
\* at most this many onChange() handlers are registered
MaxHandlers == 2
\* at most this many WebSocket connections are attempted
MaxSockets == 2
\* requests and socket events of the hub arrive up to this instant
MaxHubTime == 0
\* the mode log holds at most this many mode changes made by requests
MaxChanges == 2
\* the hub is followed up to this instant
MaxHubRun == 3500
\* a WSClient creates at most this many sockets
MaxClientSockets == 4
\* the Store processes at most this many events
MaxStoreEvents == 3
\* events reach the Store up to this instant
MaxStoreTime == 1500
\* the Store is followed up to this instant
MaxStoreRun == 5000
\* tool use ids and agent ids are drawn from 1..MaxIds
MaxIds == 2
\* emit() calls that record the window they found arrive up to this instant
MaxWindowTime == 1000

(* ---------------------------------------------------------------------- *)
(* Values                                                                  *)
(* ---------------------------------------------------------------------- *)
\* null / undefined (an absent optional argument or field)
NULL == -1

Mode == {"idle", "typing", "running", "thinking", "celebrate", "error"}

\* the protection windows passed to emit(): absent, 0, windows below, at and
\* above thinkingTimeout and one window longer than idleTimeout
TTLs == {NULL, 0, 2000, 3000, 5000, 30000}

\* JavaScript truthiness of a number | null | undefined
Truthy(x) == x # NULL /\ x # 0

thinkingTimeout == 3000
idleTimeout == 25000
tickRate == 500

Min(a, b) == IF a <= b THEN a ELSE b

VARIABLES
  now,               \* Date.now()
  currentMode,
  lastEventTime,
  modeTTL,
  modeExpiresAt,
  tickInterval,      \* NULL, or the instant the interval timer fires next
  onChangeHandlers,  \* sequence of handler ids
  \* ---- history of the last operation (observation only) ----
  opKind,            \* "init", "emit", "hook", "tick", "onChange"
  opTime,            \* the instant the last operation ran
  opEvent,           \* the HookEvent of the last operation, or NoEvent
  opPre,             \* currentMode before the last operation
  opCalls,           \* the emit(mode, ttl) calls the last operation made
  opMsgs,            \* the StateMessages broadcast() built in the last operation
  opInvoked,         \* the handler invocations the last operation made
  prev,              \* see DoCalls
  lastCall,          \* the last emit(mode, ttl) call made, or NoCall
  tickSilence,       \* silence seen by the last tick since the last emit
  decayLog,          \* modes broadcast by ticks since the last emit
  \* ---- the hub of createServers ----
  clients,           \* the Set<WebSocket>, as a set of socket ids
  readyState,        \* socket id -> "NONE", "OPEN", "CLOSING", "CLOSED"
  urlToken,          \* socket id -> the token of its handshake
  closeCode,         \* socket id -> the code the server closed it with, or NULL
  fired,             \* socket id -> the events ("close", "error") it has had
  sent,              \* socket id -> the modes of the StateMessages sent to it
  \* ---- history kept for the hub and the handlers (observation only) ----
  joinedAt,          \* socket id -> length of modeLog at its handshake
  modeLog,           \* the values currentMode has taken, in order
  opStatus,          \* the HTTP status the last operation answered, or NULL
  opBody,            \* the body or message text of the last operation
  opResult,          \* the mode the last operation returned, or "none"
  opSocket,          \* the socket the last operation was about, or 0
  prevBad,           \* see GetState
  regAt,             \* handler position -> mode changes before its onChange()
  got,               \* handler position -> number of times it was invoked
  destroyed,         \* destroy() has been called
  opPreExpiresAt,    \* modeExpiresAt before the last operation
  \* ---- the WSClient of the PWA ----
  ws,                \* the socket the client refers to, 0 for null
  wsState,           \* socket id -> "NONE", "CONNECTING", "OPEN", "CLOSING", "CLOSED"
  shouldReconnect,
  reconnectTimeout,  \* a reconnect timer is pending
  reconnectStep,     \* reconnectDelay is 1000ms * 1.5^reconnectStep, capped
  connectionState,   \* the connectionState of the store
  staleClear,        \* the close of a replaced socket has cleared ws
  \* ---- the Store of the PWA ----
  stMode,            \* state.mode
  lastError,         \* state.lastError: "none" or its severity
  currentTool,       \* state.currentTool: toolUseId and status, or NoCurrentTool
  agents,            \* state.agents: agent id -> "absent" or its status
  stTimers,          \* the setTimeout callbacks not yet run
  evSeq,             \* number of events processed
  modeBy,            \* the event that last assigned state.mode
  errorBy,           \* the event that last assigned state.lastError
  toolBy,            \* the event that last assigned state.currentTool
  agentBy,           \* agent id -> the event that last assigned its entry
  overwrote          \* kinds of timers that undid the work of a later event

smVars == <<currentMode, lastEventTime, modeTTL, modeExpiresAt>>
histVars == <<opKind, opTime, opEvent, opPre, opCalls, opMsgs, opInvoked, prev, lastCall,
              tickSilence, decayLog>>
hubVars == <<clients, readyState, urlToken, closeCode, fired, sent>>
hubHist == <<joinedAt, modeLog, opStatus, opBody, opResult, opSocket, prevBad>>
handlerHist == <<regAt, got>>
clientVars == <<ws, wsState, shouldReconnect, reconnectTimeout, reconnectStep,
                connectionState, staleClear>>
storeVars == <<stMode, lastError, currentTool, agents, stTimers, evSeq, modeBy,
               errorBy, toolBy, agentBy, overwrote>>
auxVars == <<opPreExpiresAt, clientVars, storeVars>>
extVars == <<clients, readyState, urlToken, closeCode, fired, sent, joinedAt,
             modeLog, opStatus, opBody, opResult, opSocket, prevBad, regAt,
             got, destroyed, auxVars>>
vars == <<now, currentMode, lastEventTime, modeTTL, modeExpiresAt,
          tickInterval, onChangeHandlers, opKind, opTime, opEvent, opPre,
          opCalls, opMsgs, opInvoked, prev, lastCall, tickSilence, decayLog,
          clients, readyState, urlToken, closeCode, fired, sent, joinedAt,
          modeLog, opStatus, opBody, opResult, opSocket, prevBad, regAt,
          got, destroyed, auxVars>>

(* ---------------------------------------------------------------------- *)
(* StateMachine                                                            *)
(* ---------------------------------------------------------------------- *)
\* the fields of the StateMachine as one value
SM == [currentMode |-> currentMode, lastEventTime |-> lastEventTime,
       modeTTL |-> modeTTL, modeExpiresAt |-> modeExpiresAt]

\* broadcast(): the StateMessage built from the current mode, handed to every
\* registered handler in registration order
StateMessage(mode, t) == [type |-> "state", mode |-> mode, ts |-> t]

\* (variant: the handlers are called last registered first)
broadcast_Reversed(mode, t, handlers) ==
  [i \in 1..Len(handlers) |->
     [handler |-> handlers[Len(handlers) + 1 - i],
      message |-> StateMessage(mode, t)]]

broadcast(mode, t, handlers) ==
  [i \in 1..Len(handlers) |->
     [handler |-> handlers[i], message |-> StateMessage(mode, t)]]

\* emit(mode, ttl): the new fields and whether broadcast() is called
\* (variant: an error mode is never replaced by an emit)
emitChanges_KeepsError(mode, cur) == mode # cur /\ cur # "error"

\* (variant: every emit counts as a change)
emitChanges_Always(mode, cur) == TRUE

\* (variant: a celebrate is announced again)
emitChanges_CelebrateAgain(mode, cur) == mode # cur \/ mode = "celebrate"

emitChanges(mode, cur) == mode # cur

\* (variant: the call time is not added)
emitExpiresAt_NotFromNow(ttl, t) == IF Truthy(ttl) THEN ttl ELSE NULL

emitExpiresAt(ttl, t) == IF Truthy(ttl) THEN t + ttl ELSE NULL

emitTTL(ttl) == IF Truthy(ttl) THEN ttl ELSE NULL

emit(sm, mode, ttl, t) ==
  LET changed == emitChanges(mode, sm.currentMode)
  IN [currentMode |-> IF changed THEN mode ELSE sm.currentMode,
      lastEventTime |-> t,
      modeTTL |-> emitTTL(ttl),
      modeExpiresAt |-> emitExpiresAt(ttl, t),
      broadcast |-> changed]

\* tick(): first the expiry of the TTL ...
\* (variant: every tick drops the TTL)
tickExpired_Always(expiresAt, t) == Truthy(expiresAt)

tickExpired(expiresAt, t) == Truthy(expiresAt) /\ t >= expiresAt

\* ... then the shield of celebrate and error (the early return) ...
\* (variant: only celebrate is shielded)
tickShielded_CelebrateOnly(mode, expiresAt, t) ==
  /\ mode = "celebrate"
  /\ Truthy(expiresAt) /\ t < expiresAt

\* (variant: the shield does not look at the expiry)
tickShielded_NoExpiry(mode, expiresAt, t) ==
  mode = "celebrate" \/ mode = "error"

tickShielded(mode, expiresAt, t) ==
  /\ mode = "celebrate" \/ mode = "error"
  /\ Truthy(expiresAt) /\ t < expiresAt

\* ... then the time-based transitions: the mode after them and whether
\* broadcast() is called
Decay(mode, called) == [mode |-> mode, broadcast |-> called]

\* (variant: the idle transition lacks its guard on the current mode)
tickDecay_Rebroadcast(mode, timeSinceLastEvent) ==
  IF timeSinceLastEvent >= idleTimeout
    THEN Decay("idle", TRUE)
    ELSE IF timeSinceLastEvent >= thinkingTimeout
      THEN (IF mode # "thinking" /\ mode # "idle"
              THEN Decay("thinking", TRUE) ELSE Decay(mode, FALSE))
      ELSE Decay(mode, FALSE)

\* (variant: the thinking timeout is tested before the idle timeout)
tickDecay_ThinkingFirst(mode, timeSinceLastEvent) ==
  IF timeSinceLastEvent >= thinkingTimeout
    THEN (IF mode # "thinking" /\ mode # "idle"
            THEN Decay("thinking", TRUE) ELSE Decay(mode, FALSE))
    ELSE IF timeSinceLastEvent >= idleTimeout
      THEN (IF mode # "idle" THEN Decay("idle", TRUE) ELSE Decay(mode, FALSE))
      ELSE Decay(mode, FALSE)

\* (variant: the thinking timeout must be exceeded, not reached)
tickDecay_ThinkingLate(mode, timeSinceLastEvent) ==
  IF timeSinceLastEvent >= idleTimeout
    THEN (IF mode # "idle" THEN Decay("idle", TRUE) ELSE Decay(mode, FALSE))
    ELSE IF timeSinceLastEvent > thinkingTimeout
      THEN (IF mode # "thinking" /\ mode # "idle"
              THEN Decay("thinking", TRUE) ELSE Decay(mode, FALSE))
      ELSE Decay(mode, FALSE)

\* (variant: the idle timeout must be exceeded, not reached)
tickDecay_IdleLate(mode, timeSinceLastEvent) ==
  IF timeSinceLastEvent > idleTimeout
    THEN (IF mode # "idle" THEN Decay("idle", TRUE) ELSE Decay(mode, FALSE))
    ELSE IF timeSinceLastEvent >= thinkingTimeout
      THEN (IF mode # "thinking" /\ mode # "idle"
              THEN Decay("thinking", TRUE) ELSE Decay(mode, FALSE))
      ELSE Decay(mode, FALSE)

\* (variant: the thinking transition lacks its guard on idle)
tickDecay_IdleToThinking(mode, timeSinceLastEvent) ==
  IF timeSinceLastEvent >= idleTimeout
    THEN (IF mode # "idle" THEN Decay("idle", TRUE) ELSE Decay(mode, FALSE))
    ELSE IF timeSinceLastEvent >= thinkingTimeout
      THEN (IF mode # "thinking"
              THEN Decay("thinking", TRUE) ELSE Decay(mode, FALSE))
      ELSE Decay(mode, FALSE)

tickDecay(mode, timeSinceLastEvent) ==
  IF timeSinceLastEvent >= idleTimeout
    THEN (IF mode # "idle" THEN Decay("idle", TRUE) ELSE Decay(mode, FALSE))
    ELSE IF timeSinceLastEvent >= thinkingTimeout
      THEN (IF mode # "thinking" /\ mode # "idle"
              THEN Decay("thinking", TRUE) ELSE Decay(mode, FALSE))
      ELSE Decay(mode, FALSE)

\* (variant: the expiry of the TTL puts the machine in idle)
tick_HardRevert(sm, t) ==
  LET timeSinceLastEvent == t - sm.lastEventTime
      expired == tickExpired(sm.modeExpiresAt, t)
      expiresAt == IF expired THEN NULL ELSE sm.modeExpiresAt
      ttl == IF expired THEN NULL ELSE sm.modeTTL
      d == IF expired
             THEN Decay("idle", sm.currentMode # "idle")
           ELSE IF tickShielded(sm.currentMode, expiresAt, t)
             THEN Decay(sm.currentMode, FALSE)
             ELSE tickDecay(sm.currentMode, timeSinceLastEvent)
  IN [currentMode |-> d.mode,
      lastEventTime |-> sm.lastEventTime,
      modeTTL |-> ttl,
      modeExpiresAt |-> expiresAt,
      broadcast |-> d.broadcast]

tick(sm, t) ==
  LET timeSinceLastEvent == t - sm.lastEventTime
      expired == tickExpired(sm.modeExpiresAt, t)
      expiresAt == IF expired THEN NULL ELSE sm.modeExpiresAt
      ttl == IF expired THEN NULL ELSE sm.modeTTL
      d == IF tickShielded(sm.currentMode, expiresAt, t)
             THEN Decay(sm.currentMode, FALSE)
             ELSE tickDecay(sm.currentMode, timeSinceLastEvent)
  IN [currentMode |-> d.mode,
      lastEventTime |-> sm.lastEventTime,
      modeTTL |-> ttl,
      modeExpiresAt |-> expiresAt,
      broadcast |-> d.broadcast]

(* ---------------------------------------------------------------------- *)
(* handleHookEvent                                                         *)
(* ---------------------------------------------------------------------- *)
NoTool == "<undefined>"
NoType == "<none>"

HookTypes == {"PreToolUse", "PostToolUse", "Stop", "Error", "Notification"}
HookTools == {NoTool, "", "Write", "Edit", "NotebookEdit", "Bash", "Read",
              "Grep", "Glob", "Task", "WebFetch", "WebSearch", "LS"}
ExitCodes == {NULL, 0, 1}

HookEvent == [type : HookTypes, tool : HookTools, exitCode : ExitCodes]

NoEvent == [type |-> NoType, tool |-> NoTool, exitCode |-> NULL]

\* the emit(mode, ttl) calls handleHookEvent makes, in order
Call(mode, ttl) == [mode |-> mode, ttl |-> ttl]

NoCall == [mode |-> "none", ttl |-> NULL]

NoPrev == [pre |-> "none", msgs |-> 0]

\* (variant: the error test comes first)
handleHookEvent_ErrorFirst(event) ==
  IF event.type = "Error" \/ (Truthy(event.exitCode) /\ event.exitCode # 0)
    THEN <<Call("error", 2000)>>
  ELSE IF event.type = "PreToolUse" THEN
    LET tool == IF event.tool = NoTool \/ event.tool = "" THEN "" ELSE event.tool
    IN IF tool \in {"Write", "Edit", "NotebookEdit"} THEN <<Call("typing", 5000)>>
       ELSE IF tool = "Bash" THEN <<Call("running", 10000)>>
       ELSE IF tool \in {"Read", "Grep", "Glob", "Task", "WebFetch", "WebSearch"}
         THEN <<Call("thinking", 3000)>>
       ELSE <<>>
  ELSE IF event.type = "Stop" THEN <<Call("celebrate", 2000)>>
  ELSE <<>>

\* (variant: the error test is not chained to the type tests)
handleHookEvent_ErrorAlso(event) ==
  IF event.type = "PreToolUse"
       /\ event.tool \in {"Write", "Edit", "NotebookEdit"} THEN <<Call("typing", 5000)>>
  ELSE IF event.type = "PreToolUse" /\ event.tool = "Bash" THEN <<Call("running", 10000)>>
  ELSE IF event.type = "PreToolUse"
       /\ event.tool \in {"Read", "Grep", "Glob", "Task", "WebFetch", "WebSearch"}
    THEN <<Call("thinking", 3000)>>
  ELSE IF event.type = "Stop" THEN <<Call("celebrate", 2000)>>
  ELSE IF event.type = "Error" \/ (Truthy(event.exitCode) /\ event.exitCode # 0)
    THEN <<Call("error", 2000)>>
  ELSE <<>>

handleHookEvent(event) ==
  IF event.type = "PreToolUse" THEN
    LET tool == IF event.tool = NoTool \/ event.tool = "" THEN "" ELSE event.tool
    IN IF tool \in {"Write", "Edit", "NotebookEdit"} THEN <<Call("typing", 5000)>>
       ELSE IF tool = "Bash" THEN <<Call("running", 10000)>>
       ELSE IF tool \in {"Read", "Grep", "Glob", "Task", "WebFetch", "WebSearch"}
         THEN <<Call("thinking", 3000)>>
       ELSE <<>>
  ELSE IF event.type = "Stop" THEN <<Call("celebrate", 2000)>>
  ELSE IF event.type = "Error" \/ (Truthy(event.exitCode) /\ event.exitCode # 0)
    THEN <<Call("error", 2000)>>
  ELSE <<>>

(* ---------------------------------------------------------------------- *)
(* Actions                                                                 *)
(* ---------------------------------------------------------------------- *)
SocketIds == 1..MaxSockets

NoToken == "<null>"

\* no connection has been attempted, nothing has been observed
ExtInit ==
  /\ clients = {}
  /\ readyState = [s \in SocketIds |-> "NONE"]
  /\ urlToken = [s \in SocketIds |-> NoToken]
  /\ closeCode = [s \in SocketIds |-> NULL]
  /\ fired = [s \in SocketIds |-> {}]
  /\ sent = [s \in SocketIds |-> <<>>]
  /\ joinedAt = [s \in SocketIds |-> 0]
  /\ modeLog = <<"idle">>
  /\ opStatus = NULL
  /\ opBody = ""
  /\ opResult = "none"
  /\ opSocket = 0
  /\ prevBad = "none"
  /\ regAt = <<>>
  /\ got = <<>>
  /\ destroyed = FALSE
  /\ opPreExpiresAt = NULL
  /\ ws = 0
  /\ wsState = [i \in 1..MaxClientSockets |-> "NONE"]
  /\ shouldReconnect = TRUE
  /\ reconnectTimeout = FALSE
  /\ reconnectStep = 0
  /\ connectionState = "disconnected"
  /\ staleClear = FALSE
  /\ stMode = "idle"
  /\ lastError = "none"
  /\ currentTool = [id |-> 0, status |-> "none"]
  /\ agents = [a \in 1..MaxIds |-> "absent"]
  /\ stTimers = {}
  /\ evSeq = 0
  /\ modeBy = 0
  /\ errorBy = 0
  /\ toolBy = 0
  /\ agentBy = [a \in 1..MaxIds |-> 0]
  /\ overwrote = {}

\* new StateMachine(): the fields' initialisers and startTicking(), then
\* the onChange() registrations made before anything else happens
Created(handlers) ==
  /\ ExtInit
  /\ now = 0
  /\ currentMode = "idle"
  /\ lastEventTime = 0
  /\ modeTTL = NULL
  /\ modeExpiresAt = NULL
  /\ tickInterval = tickRate
  /\ onChangeHandlers = handlers
  /\ opKind = "init"
  /\ opTime = 0
  /\ opEvent = NoEvent
  /\ opPre = "idle"
  /\ opCalls = <<>>
  /\ opMsgs = <<>>
  /\ opInvoked = <<>>
  /\ prev = NoPrev
  /\ lastCall = NoCall
  /\ tickSilence = NULL
  /\ decayLog = <<>>

Init == Created(<<>>)

\* the operation `kind` makes the emit calls `calls` (none or one): the
\* fields of the StateMachine, the broadcast and the history after it.
\* prev is the mode before, and the number of StateMessages broadcast by,
\* the operation before this one when both are an emit call of the same
\* mode, NoPrev otherwise.
DoCalls(kind, event, calls) ==
  /\ opKind' = kind
  /\ opTime' = now
  /\ opEvent' = event
  /\ opPre' = currentMode
  /\ opCalls' = calls
  /\ IF calls = <<>>
       THEN /\ UNCHANGED <<smVars, lastCall, tickSilence, decayLog>>
            /\ opMsgs' = <<>>
            /\ opInvoked' = <<>>
            /\ prev' = NoPrev
       ELSE LET c == calls[1]
                r == emit(SM, c.mode, c.ttl, now)
            IN /\ currentMode' = r.currentMode
               /\ lastEventTime' = r.lastEventTime
               /\ modeTTL' = r.modeTTL
               /\ modeExpiresAt' = r.modeExpiresAt
               /\ opMsgs' = IF r.broadcast
                              THEN <<StateMessage(r.currentMode, now)>>
                              ELSE <<>>
               /\ opInvoked' = IF r.broadcast
                                 THEN broadcast(r.currentMode, now, onChangeHandlers)
                                 ELSE <<>>
               /\ prev' = IF opCalls # <<>> /\ opCalls[1].mode = c.mode
                            THEN [pre |-> opPre, msgs |-> Len(opMsgs)]
                            ELSE NoPrev
               /\ lastCall' = c
               /\ tickSilence' = NULL
               /\ decayLog' = <<>>
  /\ UNCHANGED <<now, tickInterval, onChangeHandlers>>

\* a direct call stateMachine.emit(mode, ttl)
Emit(mode, ttl) ==
  /\ now <= MaxEventTime
  /\ DoCalls("emit", NoEvent, <<Call(mode, ttl)>>)
  /\ UNCHANGED extVars

\* handleHookEvent(event, stateMachine)
Hook(event) ==
  /\ now <= MaxHookTime
  /\ DoCalls("hook", event, handleHookEvent(event))
  /\ UNCHANGED extVars

\* the interval timer fires: tick() and its effect on the StateMachine
TickCore ==
  /\ tickInterval # NULL
  /\ now >= tickInterval
  /\ LET r == tick(SM, now)
     IN /\ currentMode' = r.currentMode
        /\ lastEventTime' = r.lastEventTime
        /\ modeTTL' = r.modeTTL
        /\ modeExpiresAt' = r.modeExpiresAt
        /\ opMsgs' = IF r.broadcast
                       THEN <<StateMessage(r.currentMode, now)>>
                       ELSE <<>>
        /\ opInvoked' = IF r.broadcast
                          THEN broadcast(r.currentMode, now, onChangeHandlers)
                          ELSE <<>>
        /\ decayLog' = IF r.broadcast THEN Append(decayLog, r.currentMode)
                                      ELSE decayLog
  /\ tickInterval' = tickInterval + tickRate
  /\ tickSilence' = now - lastEventTime
  /\ opKind' = "tick"
  /\ opTime' = now
  /\ opEvent' = NoEvent
  /\ opPre' = currentMode
  /\ opCalls' = <<>>
  /\ prev' = NoPrev
  /\ UNCHANGED <<now, onChangeHandlers, lastCall>>

\* the interval timer fires while no connection and no observer is present
Tick ==
  /\ TickCore
  /\ UNCHANGED extVars

\* onChange(handler): the handler is a new function, named by its position
OnChangeCore ==
  /\ Len(onChangeHandlers) < MaxHandlers
  /\ onChangeHandlers' = Append(onChangeHandlers, Len(onChangeHandlers) + 1)
  /\ opKind' = "onChange"
  /\ opTime' = now
  /\ opEvent' = NoEvent
  /\ opPre' = currentMode
  /\ opCalls' = <<>>
  /\ opMsgs' = <<>>
  /\ opInvoked' = <<>>
  /\ prev' = NoPrev
  /\ UNCHANGED <<now, smVars, tickInterval, lastCall, tickSilence, decayLog>>

\* handlers registered at start-up, before any event is handled
OnChange ==
  /\ opKind \in {"init", "onChange"}
  /\ OnChangeCore
  /\ UNCHANGED extVars

\* time passes, but never past the instant the interval timer is due
Advance ==
  /\ now < MaxTime
  /\ tickInterval = NULL \/ now < tickInterval
  /\ now' = now + (IF tickInterval = NULL THEN TimeStep
                   ELSE Min(TimeStep, tickInterval - now))
  /\ UNCHANGED <<smVars, tickInterval, onChangeHandlers, histVars>>
  /\ UNCHANGED extVars

\* the StateMachine driven by direct emit() calls
Next ==
  \/ \E mode \in Mode, ttl \in TTLs : Emit(mode, ttl)
  \/ Tick
  \/ OnChange
  \/ Advance

Spec == Init /\ [][Next]_vars

\* the StateMachine driven by the hook endpoint
HookNext ==
  \/ \E event \in HookEvent : Hook(event)
  \/ Tick
  \/ Advance

HookSpec == Init /\ [][HookNext]_vars

(* ---------------------------------------------------------------------- *)
(* The hub: createServers                                                  *)
(* ---------------------------------------------------------------------- *)
\* the handler createServers registers with stateMachine.onChange
HubHandler == 1

\* the token the server was created with, and the tokens handshakes carry:
\* the right one, one that differs in case, and none (searchParams.get
\* returns null)
ConfigToken == "secret"
Tokens == {ConfigToken, "Secret", NoToken}

\* (variant: a handshake without a token is let in)
tokenMatches_AbsentOk(tok, configured) == tok = NoToken \/ tok = configured

\* the test of the connection handler: urlToken !== token rejects
tokenMatches(tok, configured) == tok = configured

\* the close code of a rejected handshake
InvalidTokenCode == 4001

\* (variant: only the first open connection is served)
fanOutTargets_FirstOnly(cl, rs) ==
  {s \in cl : rs[s] = "OPEN" /\ \A t \in cl : rs[t] = "OPEN" => s <= t}

\* (variant: the readyState test is missing)
fanOutTargets_All(cl, rs) == cl

\* the onChange handler: the clients whose readyState is OPEN
fanOutTargets(cl, rs) == {s \in cl : rs[s] = "OPEN"}

\* the modes of the messages the hub's handler was invoked with
RECURSIVE hubModes(_)
hubModes(invoked) ==
  IF invoked = <<>> THEN <<>>
  ELSE IF Head(invoked).handler = HubHandler
    THEN <<Head(invoked).message.mode>> \o hubModes(Tail(invoked))
    ELSE hubModes(Tail(invoked))

\* the onChange handler: client.send(payload) for every target; the log of
\* what each socket was sent, and the log of the values of currentMode
Relay ==
  /\ sent' = [s \in SocketIds |->
                IF s \in fanOutTargets(clients, readyState)
                  THEN sent[s] \o hubModes(opInvoked')
                  ELSE sent[s]]
  /\ modeLog' = IF currentMode' # currentMode
                  THEN Append(modeLog, currentMode')
                  ELSE modeLog

\* what the last operation was given and what it answered
Observed(status, body, result, socket) ==
  /\ opStatus' = status
  /\ opBody' = body
  /\ opResult' = result
  /\ opSocket' = socket
  /\ prevBad' = IF opKind = "post" /\ opStatus = 400 THEN opPre ELSE "none"

\* ---- POST /hook ----
\* request bodies: text that is not JSON, the JSON values null, a number, a
\* string, an array, an object without a type, and three hook events
Bodies == {"{bad", "null", "42", "\"hi\"", "[]", "{}",
           "{\"type\":\"Stop\"}",
           "{\"type\":\"PreToolUse\",\"tool\":\"Bash\"}",
           "{\"type\":\"PostToolUse\",\"exitCode\":1}"}

\* JSON.parse(body): whether it returns, the kind of value, and for an
\* object the three properties handleHookEvent reads
JSONparse(body) ==
  CASE body = "null" -> [ok |-> TRUE, kind |-> "null", event |-> NoEvent]
    [] body = "42" -> [ok |-> TRUE, kind |-> "number", event |-> NoEvent]
    [] body = "\"hi\"" -> [ok |-> TRUE, kind |-> "string", event |-> NoEvent]
    [] body = "[]" -> [ok |-> TRUE, kind |-> "array", event |-> NoEvent]
    [] body = "{}" -> [ok |-> TRUE, kind |-> "object", event |-> NoEvent]
    [] body = "{\"type\":\"Stop\"}" ->
         [ok |-> TRUE, kind |-> "object",
          event |-> [type |-> "Stop", tool |-> NoTool, exitCode |-> NULL]]
    [] body = "{\"type\":\"PreToolUse\",\"tool\":\"Bash\"}" ->
         [ok |-> TRUE, kind |-> "object",
          event |-> [type |-> "PreToolUse", tool |-> "Bash", exitCode |-> NULL]]
    [] body = "{\"type\":\"PostToolUse\",\"exitCode\":1}" ->
         [ok |-> TRUE, kind |-> "object",
          event |-> [type |-> "PostToolUse", tool |-> NoTool, exitCode |-> 1]]
    [] OTHER -> [ok |-> FALSE, kind |-> "none", event |-> NoEvent]

\* reading event.type of the parsed value throws a TypeError for null; a
\* number, a string and an array have no such properties
readThrows(value) == value.kind = "null"

\* (variant: the answer is 400 when the event put the machine in error)
hookOutcome_ErrorIs400(body) ==
  LET value == JSONparse(body)
  IN IF ~value.ok \/ readThrows(value)
       THEN [status |-> 400, calls |-> <<>>]
       ELSE [status |-> IF handleHookEvent(value.event) = <<Call("error", 2000)>>
                          THEN 400 ELSE 200,
             calls |-> handleHookEvent(value.event)]

\* the try block of the /hook route: the status answered and the emit calls
\* made before the answer
hookOutcome(body) ==
  LET value == JSONparse(body)
  IN IF ~value.ok \/ readThrows(value)
       THEN [status |-> 400, calls |-> <<>>]
       ELSE [status |-> 200, calls |-> handleHookEvent(value.event)]

PostHook(body) ==
  /\ now <= MaxHubTime
  /\ Len(modeLog) <= MaxChanges
  /\ DoCalls("post", JSONparse(body).event, hookOutcome(body).calls)
  /\ Relay
  /\ Observed(hookOutcome(body).status, body, "none", 0)
  /\ UNCHANGED <<clients, readyState, urlToken, closeCode, fired, joinedAt>>
  /\ UNCHANGED <<handlerHist, destroyed, auxVars>>

\* ---- GET /api/state ----
\* (variant: the answer is the mode last emitted, not the decayed one)
apiState_LastEmitted(sm, last) == IF last = NoCall THEN "idle" ELSE last.mode

\* the mode put in the answer: stateMachine.mode
apiState(sm, last) == sm.currentMode

GetState ==
  /\ now <= MaxHubRun
  /\ DoCalls("get", NoEvent, <<>>)
  /\ Observed(200, "", apiState(SM, lastCall), 0)
  /\ UNCHANGED <<hubVars, joinedAt, modeLog, handlerHist, destroyed, auxVars>>

\* ---- the WebSocket server ----
\* wss.on('connection'): socket s arrives, open, with token tok
WsConnect(s, tok) ==
  /\ now <= MaxHubTime
  /\ readyState[s] = "NONE"
  /\ \A t \in SocketIds : t < s => readyState[t] # "NONE"
  /\ urlToken' = [urlToken EXCEPT ![s] = tok]
  /\ IF ~tokenMatches(tok, ConfigToken)
       THEN /\ readyState' = [readyState EXCEPT ![s] = "CLOSING"]
            /\ closeCode' = [closeCode EXCEPT ![s] = InvalidTokenCode]
            /\ UNCHANGED <<clients, sent, joinedAt>>
       ELSE /\ readyState' = [readyState EXCEPT ![s] = "OPEN"]
            /\ clients' = clients \cup {s}
            /\ sent' = [sent EXCEPT ![s] = Append(sent[s], currentMode)]
            /\ joinedAt' = [joinedAt EXCEPT ![s] = Len(modeLog)]
            /\ UNCHANGED closeCode
  /\ DoCalls("connect", NoEvent, <<>>)
  /\ Observed(NULL, "", "none", s)
  /\ UNCHANGED <<fired, modeLog, handlerHist, destroyed, auxVars>>

\* the sockets whose message, close and error handlers were registered
Listening(s) ==
  readyState[s] # "NONE" /\ tokenMatches(urlToken[s], ConfigToken)

\* inbound texts: a hello, the JSON value null, and text that is not JSON
Messages == {"{\"type\":\"hello\",\"version\":\"1\",\"client\":\"pwa\",\"token\":\"x\"}",
             "null", "ping"}

\* ws.on('message'): what the handler does with the text
onMessage(data) ==
  CASE data = "ping" -> "caught"
    [] data = "null" -> "caught"
    [] OTHER -> "logged"

\* (variant: the server answers a message with the current state)
WsMessage_Replies(s, data) ==
  /\ now <= MaxHubTime
  /\ Listening(s)
  /\ readyState[s] = "OPEN"
  /\ DoCalls("message", NoEvent, <<>>)
  /\ Observed(NULL, data, onMessage(data), s)
  /\ sent' = [sent EXCEPT ![s] = Append(sent[s], currentMode)]
  /\ UNCHANGED <<clients, readyState, urlToken, closeCode, fired>>
  /\ UNCHANGED <<joinedAt, modeLog, handlerHist, destroyed, auxVars>>

\* a text arrives on an open, authenticated socket
WsMessage(s, data) ==
  /\ now <= MaxHubTime
  /\ Listening(s)
  /\ readyState[s] = "OPEN"
  /\ DoCalls("message", NoEvent, <<>>)
  /\ Observed(NULL, data, onMessage(data), s)
  /\ UNCHANGED <<hubVars, joinedAt, modeLog, handlerHist, destroyed, auxVars>>

\* the peer starts closing: the socket is no longer OPEN, no event has fired
PeerClosing(s) ==
  /\ now <= MaxHubTime
  /\ readyState[s] = "OPEN"
  /\ readyState' = [readyState EXCEPT ![s] = "CLOSING"]
  /\ DoCalls("closing", NoEvent, <<>>)
  /\ Observed(NULL, "", "none", s)
  /\ UNCHANGED <<clients, urlToken, closeCode, fired, sent>>
  /\ UNCHANGED <<joinedAt, modeLog, handlerHist, destroyed, auxVars>>

\* (variant: the error handler does not delete)
afterEvent_CloseOnly(cl, s, ev) == IF ev = "close" THEN cl \ {s} ELSE cl

\* ws.on('close') and ws.on('error'): clients.delete(ws)
afterEvent(cl, s, ev) == cl \ {s}

\* the close or error event of a socket with handlers fires, each at most
\* once; an error leaves no socket OPEN, a close leaves it CLOSED
WsEvent(s, ev) ==
  /\ now <= MaxHubTime
  /\ Listening(s)
  /\ ev \notin fired[s]
  /\ fired' = [fired EXCEPT ![s] = fired[s] \cup {ev}]
  /\ readyState' = [readyState EXCEPT ![s] =
                      IF ev = "close" THEN "CLOSED"
                      ELSE IF readyState[s] = "OPEN" THEN "CLOSING"
                      ELSE readyState[s]]
  /\ clients' = afterEvent(clients, s, ev)
  /\ DoCalls(ev, NoEvent, <<>>)
  /\ Observed(NULL, "", "none", s)
  /\ UNCHANGED <<urlToken, closeCode, sent>>
  /\ UNCHANGED <<joinedAt, modeLog, handlerHist, destroyed, auxVars>>

\* the interval timer fires while the hub is running
HubTick ==
  /\ TickCore
  /\ Relay
  /\ Observed(NULL, "", "none", 0)
  /\ UNCHANGED <<clients, readyState, urlToken, closeCode, fired, joinedAt>>
  /\ UNCHANGED <<handlerHist, destroyed, auxVars>>

\* createServers(token, port, stateMachine): the machine with the hub's
\* handler registered
HubInit == Created(<<HubHandler>>)

\* time passes while the hub is running
HubAdvance ==
  /\ now < MaxHubRun
  /\ Advance

HubNext ==
  \/ \E body \in Bodies : PostHook(body)
  \/ GetState
  \/ \E s \in SocketIds, tok \in Tokens : WsConnect(s, tok)
  \/ \E s \in SocketIds, data \in Messages : WsMessage(s, data)
  \/ \E s \in SocketIds : PeerClosing(s)
  \/ \E s \in SocketIds, ev \in {"close", "error"} : WsEvent(s, ev)
  \/ HubTick
  \/ HubAdvance

HubSpec == HubInit /\ [][HubNext]_vars

(* ---------------------------------------------------------------------- *)
(* Handlers registered while the machine runs, and destroy()               *)
(* ---------------------------------------------------------------------- *)
\* how often handler h occurs in the invocations of one broadcast
RECURSIVE timesInvoked(_, _)
timesInvoked(invoked, h) ==
  IF invoked = <<>> THEN 0
  ELSE (IF Head(invoked).handler = h THEN 1 ELSE 0)
         + timesInvoked(Tail(invoked), h)

\* the count of invocations per handler and the log of mode values
Counted ==
  /\ got' = [i \in 1..Len(got) |->
               got[i] + timesInvoked(opInvoked', onChangeHandlers[i])]
  /\ modeLog' = IF currentMode' # currentMode
                  THEN Append(modeLog, currentMode')
                  ELSE modeLog
  /\ UNCHANGED <<hubVars, joinedAt, opStatus, opBody, opResult, opSocket,
                 prevBad, regAt, destroyed, auxVars>>

\* onChange(handler) at any moment of the run
Register ==
  /\ now <= MaxEventTime
  /\ OnChangeCore
  /\ regAt' = Append(regAt, Len(modeLog) - 1)
  /\ got' = Append(got, 0)
  /\ UNCHANGED <<hubVars, hubHist, destroyed, auxVars>>

CountedEmit(mode) ==
  /\ now <= MaxEventTime
  /\ Len(modeLog) <= MaxChanges
  /\ DoCalls("emit", NoEvent, <<Call(mode, NULL)>>)
  /\ Counted

CountedTick ==
  /\ TickCore
  /\ Counted

HandlerNext ==
  \/ \E mode \in Mode : CountedEmit(mode)
  \/ CountedTick
  \/ Register
  \/ Advance

HandlerSpec == Init /\ [][HandlerNext]_vars

\* (variant: the interval is not cleared)
Destroy_NoClear ==
  /\ now <= MaxEventTime
  /\ UNCHANGED tickInterval
  /\ destroyed' = TRUE
  /\ UNCHANGED auxVars
  /\ opKind' = "destroy"
  /\ opTime' = now
  /\ opEvent' = NoEvent
  /\ opPre' = currentMode
  /\ opCalls' = <<>>
  /\ opMsgs' = <<>>
  /\ opInvoked' = <<>>
  /\ prev' = NoPrev
  /\ UNCHANGED <<now, smVars, onChangeHandlers, lastCall, tickSilence, decayLog>>
  /\ UNCHANGED <<hubVars, hubHist, handlerHist>>

\* destroy(): clearInterval and tickInterval = null, if an interval is set
Destroy ==
  /\ now <= MaxEventTime
  /\ IF tickInterval # NULL THEN tickInterval' = NULL
                            ELSE UNCHANGED tickInterval
  /\ destroyed' = TRUE
  /\ UNCHANGED auxVars
  /\ opKind' = "destroy"
  /\ opTime' = now
  /\ opEvent' = NoEvent
  /\ opPre' = currentMode
  /\ opCalls' = <<>>
  /\ opMsgs' = <<>>
  /\ opInvoked' = <<>>
  /\ prev' = NoPrev
  /\ UNCHANGED <<now, smVars, onChangeHandlers, lastCall, tickSilence, decayLog>>
  /\ UNCHANGED <<hubVars, hubHist, handlerHist>>

DestroyNext ==
  \/ \E mode \in Mode, ttl \in {NULL, 2000} : Emit(mode, ttl)
  \/ Tick
  \/ Destroy
  \/ Advance

DestroySpec == Init /\ [][DestroyNext]_vars

(* ---------------------------------------------------------------------- *)
(* The TTL window across emit() and tick()                                 *)
(* ---------------------------------------------------------------------- *)
\* emit(mode, ttl), with the window it found
WindowEmit(mode, ttl) ==
  /\ now <= MaxWindowTime
  /\ DoCalls("emit", NoEvent, <<Call(mode, ttl)>>)
  /\ opPreExpiresAt' = modeExpiresAt
  /\ UNCHANGED <<hubVars, hubHist, handlerHist, destroyed, clientVars,
               storeVars>>

\* tick(), with the window it found
WindowTick ==
  /\ TickCore
  /\ opPreExpiresAt' = modeExpiresAt
  /\ UNCHANGED <<hubVars, hubHist, handlerHist, destroyed, clientVars,
               storeVars>>

WindowNext ==
  \/ \E mode \in Mode, ttl \in TTLs : WindowEmit(mode, ttl)
  \/ WindowTick
  \/ Advance

WindowSpec == Init /\ [][WindowNext]_vars

(* ---------------------------------------------------------------------- *)
(* WSClient (packages/pwa)                                                 *)
(* ---------------------------------------------------------------------- *)
ClientSockets == 1..MaxClientSockets

\* from this step on reconnectDelay stays at maxReconnectDelay:
\* 1000 * 1.5^9 exceeds 30000
MaxReconnectStep == 9

\* the sockets the client has created and that are connecting or open
Live == {i \in ClientSockets : wsState[i] \in {"CONNECTING", "OPEN"}}

\* the sockets the client has created
Made == {i \in ClientSockets : wsState[i] # "NONE"}

\* what the server's variables and the observations of the machine do
\* while the client runs: nothing
ServerIdle ==
  UNCHANGED <<now, smVars, tickInterval, onChangeHandlers, histVars, hubVars,
              hubHist, handlerHist, destroyed, opPreExpiresAt, storeVars>>

\* connect(): return if the socket referred to is OPEN; otherwise a new
\* WebSocket, connecting, replaces the reference
connect ==
  IF ws # 0 /\ wsState[ws] = "OPEN"
    THEN UNCHANGED <<ws, wsState, shouldReconnect, connectionState>>
    ELSE /\ Cardinality(Made) < MaxClientSockets
         /\ shouldReconnect' = TRUE
         /\ connectionState' = "connecting"
         /\ wsState' = [wsState EXCEPT ![Cardinality(Made) + 1] = "CONNECTING"]
         /\ ws' = Cardinality(Made) + 1

\* init(): wsClient = new WSClient(connectionInfo); wsClient.connect()
StartClient ==
  /\ Made = {}
  /\ connect
  /\ UNCHANGED <<reconnectTimeout, reconnectStep, staleClear>>
  /\ ServerIdle

\* the page becomes visible while the store says disconnected
VisibilityChange ==
  /\ Made # {}
  /\ connectionState = "disconnected"
  /\ connect
  /\ UNCHANGED <<reconnectTimeout, reconnectStep, staleClear>>
  /\ ServerIdle

\* the timer of scheduleReconnect fires
ReconnectTimer ==
  /\ reconnectTimeout
  /\ reconnectTimeout' = FALSE
  /\ connect
  /\ UNCHANGED <<reconnectStep, staleClear>>
  /\ ServerIdle

\* onopen of socket i
SocketOpens(i) ==
  /\ wsState[i] = "CONNECTING"
  /\ wsState' = [wsState EXCEPT ![i] = "OPEN"]
  /\ connectionState' = "connected"
  /\ reconnectStep' = 0
  /\ UNCHANGED <<ws, shouldReconnect, reconnectTimeout, staleClear>>
  /\ ServerIdle

\* onclose of socket i: ws = null, then scheduleReconnect() if wanted
SocketCloses(i) ==
  /\ wsState[i] \in {"CONNECTING", "OPEN", "CLOSING"}
  /\ wsState' = [wsState EXCEPT ![i] = "CLOSED"]
  /\ connectionState' = "disconnected"
  /\ staleClear' = (staleClear \/ (ws # 0 /\ ws # i))
  /\ ws' = 0
  /\ IF shouldReconnect /\ ~reconnectTimeout
       THEN /\ reconnectTimeout' = TRUE
            /\ reconnectStep' = Min(reconnectStep + 1, MaxReconnectStep)
       ELSE UNCHANGED <<reconnectTimeout, reconnectStep>>
  /\ UNCHANGED shouldReconnect
  /\ ServerIdle

\* disconnect()
ClientDisconnect ==
  /\ Made # {}
  /\ shouldReconnect' = FALSE
  /\ reconnectTimeout' = FALSE
  /\ IF ws # 0
       THEN /\ wsState' = [wsState EXCEPT ![ws] =
                             IF wsState[ws] \in {"CONNECTING", "OPEN"}
                               THEN "CLOSING" ELSE wsState[ws]]
            /\ ws' = 0
       ELSE UNCHANGED <<ws, wsState>>
  /\ UNCHANGED <<reconnectStep, connectionState, staleClear>>
  /\ ServerIdle

ClientNext ==
  \/ StartClient
  \/ VisibilityChange
  \/ ReconnectTimer
  \/ \E i \in ClientSockets : SocketOpens(i)
  \/ \E i \in ClientSockets : SocketCloses(i)
  \/ ClientDisconnect

ClientSpec == Init /\ [][ClientNext]_vars

(* ---------------------------------------------------------------------- *)
(* Store (packages/pwa): processEvent and its delayed resets               *)
(* ---------------------------------------------------------------------- *)
Ids == 1..MaxIds

NoCurrentTool == [id |-> 0, status |-> "none"]

sessionResetDelay == 3000
toolClearDelay == 1000
agentRemoveDelay == 3000
errorClearDelay == 3000

activityToMode(activity) ==
  CASE activity = "thinking" -> "thinking"
    [] activity = "responding" -> "typing"
    [] OTHER -> "idle"

toolToMode(tool) ==
  CASE tool = "FILE_WRITE" -> "typing"
    [] tool = "TERMINAL" -> "running"
    [] tool = "AGENT" -> "running"
    [] OTHER -> "thinking"

\* setTimeout(callback, delay) called by event number by
Timer(kind, delay, by, id) ==
  [kind |-> kind, due |-> now + delay, by |-> by, id |-> id]

\* everything but the Store stays as it is
StoreOnly ==
  UNCHANGED <<smVars, tickInterval, onChangeHandlers, histVars, hubVars,
              hubHist, handlerHist, destroyed, opPreExpiresAt, clientVars>>

\* an event reaches processEvent
Arrives ==
  /\ evSeq < MaxStoreEvents
  /\ now <= MaxStoreTime
  /\ evSeq' = evSeq + 1
  /\ UNCHANGED <<now, overwrote>>
  /\ StoreOnly

\* handleSessionEvent
SessionEvent(action) ==
  /\ Arrives
  /\ stMode' = IF action = "ended" THEN "celebrate" ELSE "idle"
  /\ modeBy' = evSeq'
  /\ stTimers' = IF action = "ended"
                   THEN stTimers \cup {Timer("session", sessionResetDelay, evSeq', 0)}
                   ELSE stTimers
  /\ UNCHANGED <<lastError, currentTool, agents, errorBy, toolBy, agentBy>>

\* handleActivityEvent
ActivityEvent(activity) ==
  /\ Arrives
  /\ stMode' = activityToMode(activity)
  /\ modeBy' = evSeq'
  /\ UNCHANGED <<lastError, currentTool, agents, stTimers, errorBy, toolBy,
                 agentBy>>

\* handleToolEvent
ToolEvent(status, tool, id) ==
  /\ Arrives
  /\ IF status = "started"
       THEN /\ currentTool' = [id |-> id, status |-> "started"]
            /\ toolBy' = evSeq'
            /\ stMode' = toolToMode(tool)
            /\ modeBy' = evSeq'
            /\ UNCHANGED stTimers
       ELSE IF currentTool.id = id
         THEN /\ currentTool' = [id |-> id, status |-> status]
              /\ toolBy' = evSeq'
              /\ stMode' = IF status = "error" THEN "error" ELSE stMode
              /\ modeBy' = IF status = "error" THEN evSeq' ELSE modeBy
              /\ stTimers' = stTimers \cup {Timer("tool", toolClearDelay, evSeq', id)}
         ELSE UNCHANGED <<currentTool, toolBy, stMode, modeBy, stTimers>>
  /\ UNCHANGED <<lastError, agents, errorBy, agentBy>>

\* handleAgentEvent
AgentEvent(action, id) ==
  /\ Arrives
  /\ IF action = "spawned"
       THEN /\ agents' = [agents EXCEPT ![id] = "running"]
            /\ agentBy' = [agentBy EXCEPT ![id] = evSeq']
            /\ UNCHANGED stTimers
       ELSE IF agents[id] # "absent"
         THEN /\ agents' = [agents EXCEPT ![id] = action]
              /\ agentBy' = [agentBy EXCEPT ![id] = evSeq']
              /\ stTimers' = stTimers \cup {Timer("agent", agentRemoveDelay, evSeq', id)}
         ELSE UNCHANGED <<agents, agentBy, stTimers>>
  /\ UNCHANGED <<stMode, lastError, currentTool, modeBy, errorBy, toolBy>>

\* handleErrorEvent
ErrorEvent(severity) ==
  /\ Arrives
  /\ lastError' = severity
  /\ errorBy' = evSeq'
  /\ stMode' = IF severity = "error" THEN "error" ELSE stMode
  /\ modeBy' = IF severity = "error" THEN evSeq' ELSE modeBy
  /\ stTimers' = stTimers \cup {Timer("error", errorClearDelay, evSeq', 0)}
  /\ UNCHANGED <<currentTool, agents, toolBy, agentBy>>

\* a setTimeout callback runs: the earliest one that is due
TimerFires(t) ==
  /\ t \in stTimers
  /\ now >= t.due
  /\ \A u \in stTimers : t.due <= u.due
  /\ stTimers' = stTimers \ {t}
  /\ CASE t.kind = "session" ->
            /\ stMode' = "idle"
            /\ overwrote' = IF stMode # "idle" /\ modeBy # t.by
                              THEN overwrote \cup {"session"} ELSE overwrote
            /\ UNCHANGED <<lastError, currentTool, agents>>
       [] t.kind = "error" ->
            /\ lastError' = "none"
            /\ overwrote' = IF lastError # "none" /\ errorBy # t.by
                              THEN overwrote \cup {"error"} ELSE overwrote
            /\ UNCHANGED <<stMode, currentTool, agents>>
       [] t.kind = "tool" ->
            /\ currentTool' = IF currentTool.id = t.id THEN NoCurrentTool
                                                       ELSE currentTool
            /\ overwrote' = IF currentTool.id = t.id /\ toolBy # t.by
                              THEN overwrote \cup {"tool"} ELSE overwrote
            /\ UNCHANGED <<stMode, lastError, agents>>
       [] t.kind = "agent" ->
            /\ agents' = [agents EXCEPT ![t.id] = "absent"]
            /\ overwrote' = IF agents[t.id] # "absent" /\ agentBy[t.id] # t.by
                              THEN overwrote \cup {"agent"} ELSE overwrote
            /\ UNCHANGED <<stMode, lastError, currentTool>>
  /\ UNCHANGED <<now, evSeq, modeBy, errorBy, toolBy, agentBy>>
  /\ StoreOnly

\* time passes in the browser, but never past a callback that is due
StoreAdvance ==
  /\ now < MaxStoreRun
  /\ \A t \in stTimers : now < t.due
  /\ \E step \in 1..TimeStep :
       /\ step = TimeStep \/ \E t \in stTimers : t.due = now + step
       /\ \A t \in stTimers : now + step <= t.due
       /\ now' = now + step
  /\ UNCHANGED storeVars
  /\ StoreOnly

StoreNext ==
  \/ \E action \in {"started", "ended"} : SessionEvent(action)
  \/ \E activity \in {"thinking", "responding"} : ActivityEvent(activity)
  \/ \E status \in {"started", "completed", "error"}, id \in Ids :
       ToolEvent(status, "TERMINAL", id)
  \/ \E action \in {"spawned", "completed"}, id \in Ids : AgentEvent(action, id)
  \/ \E severity \in {"warning", "error"} : ErrorEvent(severity)
  \/ \E t \in stTimers : TimerFires(t)
  \/ StoreAdvance

StoreSpec == Init /\ [][StoreNext]_vars

\* the shape of the state machine's fields while its interval runs
\* (the specifications in which tick advances the clock)
TypeOK ==
  /\ now \in 0..(MaxTime + TimeStep)
  /\ currentMode \in Mode
  /\ lastEventTime \in 0..now
  /\ modeTTL \in TTLs \cup {10000}
  /\ modeExpiresAt = NULL \/ modeExpiresAt > lastEventTime
  /\ tickInterval = NULL \/ tickInterval >= now
  /\ Len(opInvoked) <= Len(onChangeHandlers)

(* ---------------------------------------------------------------------- *)
(* Properties                                                              *)
(* ---------------------------------------------------------------------- *)
\* C1: immediately after an emit(m, ttl) call returns, StateMachine.mode
\* equals m, for every mode and for ttl absent, zero or positive, from
\* every state reached by emits and ticks.
C1_ModeIsEmittedMode ==
  opKind = "emit" => currentMode = opCalls[1].mode

C1_Witness ==
  /\ opKind = "emit"
  /\ opCalls = <<Call("error", 0)>>
  /\ opPre = "thinking"
  /\ decayLog = <<>>
  /\ opTime >= thinkingTimeout
  /\ currentMode = "error"

\* C2: an emit() or tick() invokes the change handlers if and only if
\* currentMode after the operation differs from currentMode before it, and
\* then invokes each registered handler exactly once, in registration order,
\* with one StateMessage whose mode is the new currentMode.
C2_BroadcastIffChanged ==
  opKind \in {"emit", "tick"} =>
    IF currentMode # opPre
      THEN /\ Len(opMsgs) = 1
           /\ opMsgs[1].mode = currentMode
           /\ Len(opInvoked) = Len(onChangeHandlers)
           /\ \A i \in 1..Len(opInvoked) :
                /\ opInvoked[i].handler = onChangeHandlers[i]
                /\ opInvoked[i].message = opMsgs[1]
      ELSE opMsgs = <<>> /\ opInvoked = <<>>

C2_Witness ==
  /\ opKind = "tick"
  /\ opPre = "running"
  /\ currentMode = "thinking"
  /\ Len(onChangeHandlers) = 2
  /\ Len(opInvoked) = 2
  /\ opInvoked[1].handler = 1 /\ opInvoked[2].handler = 2
  /\ opInvoked[2].message.mode = "thinking"

\* the protection window the emit call c made at instant t leaves: none
\* when the ttl is absent, one that has already lapsed when the ttl is 0
WindowOf(c, t) ==
  IF c.ttl = NULL THEN modeExpiresAt = NULL
  ELSE IF c.ttl = 0 THEN modeExpiresAt = NULL \/ modeExpiresAt <= t
  ELSE modeExpiresAt = t + c.ttl

\* C3 (as claimed): two consecutive calls emit(m, ttl1); emit(m, ttl2)
\* produce exactly one broadcast in total, from every reachable state
\* including the freshly constructed StateMachine, and the second call sets
\* lastEventTime to its call time and replaces the protection window.
C3_Original ==
  prev # NoPrev =>
    /\ prev.msgs + Len(opMsgs) = 1
    /\ lastEventTime = opTime
    /\ WindowOf(opCalls[1], opTime)

\* C3 (amended): the two calls produce exactly one broadcast in total when
\* the mode before the first call differs from m and none when it is m
\* already; the second call never broadcasts, sets lastEventTime to its call
\* time and replaces the protection window.
C3_Idempotent ==
  prev # NoPrev =>
    /\ prev.msgs + Len(opMsgs) = (IF prev.pre # opCalls[1].mode THEN 1 ELSE 0)
    /\ opMsgs = <<>>
    /\ opInvoked = <<>>
    /\ lastEventTime = opTime
    /\ WindowOf(opCalls[1], opTime)

C3_Witness ==
  /\ prev = [pre |-> "idle", msgs |-> 1]
  /\ opCalls = <<Call("typing", 2000)>>
  /\ opTime = 1000
  /\ lastEventTime = 1000
  /\ modeExpiresAt = 3000
  /\ now = 1000

\* C4 (as claimed): after emit(m, protectionMs) with protectionMs > 0 at
\* time t and no further emit, no tick() running strictly before
\* t + protectionMs changes currentMode or broadcasts, for every mode m.
C4_ProtectionSuppressesDecay ==
  (/\ opKind = "tick"
   /\ lastCall # NoCall
   /\ lastCall.ttl > 0
   /\ opTime < lastEventTime + lastCall.ttl)
  => (currentMode = lastCall.mode /\ decayLog = <<>> /\ opMsgs = <<>>)

\* C5: a tick() that runs while currentMode is celebrate or error and the
\* protection window is still active (now < protectionExpiresAt) leaves
\* currentMode unchanged and broadcasts nothing, whatever the silence is.
C5_FeedbackShielded ==
  [][(/\ Tick
      /\ currentMode \in {"celebrate", "error"}
      /\ modeExpiresAt # NULL
      /\ now < modeExpiresAt)
     => (/\ currentMode' = currentMode
         /\ opMsgs' = <<>>
         /\ opInvoked' = <<>>)]_vars

C5_Witness ==
  /\ opKind = "tick"
  /\ currentMode = "error"
  /\ modeExpiresAt # NULL
  /\ opTime < modeExpiresAt
  /\ tickSilence >= idleTimeout
  /\ decayLog = <<>>

\* C6: after emit('thinking', 3000) with no further emit, the mode is
\* thinking and nothing has been broadcast as long as every tick so far ran
\* with silence < 25000ms; once a tick has run with silence >= 25000ms the
\* mode is idle and exactly one broadcast (of idle) has been made.
C6_ThinkingDecaysToIdle ==
  lastCall = Call("thinking", 3000) =>
    IF tickSilence = NULL \/ tickSilence < idleTimeout
      THEN currentMode = "thinking" /\ decayLog = <<>>
      ELSE currentMode = "idle" /\ decayLog = <<"idle">>

C6_Witness ==
  /\ lastCall = Call("thinking", 3000)
  /\ lastEventTime > 0
  /\ opKind = "tick"
  /\ tickSilence = idleTimeout
  /\ opPre = "thinking"
  /\ currentMode = "idle"
  /\ Len(opMsgs) = 1

\* C7: after a Stop hook (emit('celebrate', 2000)) with no further events
\* and a tick every 500ms, the mode is celebrate while every tick so far
\* ran with silence < 3000ms, thinking once a tick has run with silence in
\* [3000ms, 25000ms), idle once a tick has run with silence >= 25000ms; the
\* ticks broadcast thinking once and then idle once, and nothing else.
C7_StopDecaySequence ==
  lastCall = Call("celebrate", 2000) =>
    IF tickSilence = NULL \/ tickSilence < thinkingTimeout
      THEN currentMode = "celebrate" /\ decayLog = <<>>
    ELSE IF tickSilence < idleTimeout
      THEN currentMode = "thinking" /\ decayLog = <<"thinking">>
    ELSE currentMode = "idle" /\ decayLog = <<"thinking", "idle">>

C7_Witness ==
  /\ lastCall = Call("celebrate", 2000)
  /\ opKind = "tick"
  /\ opPre = "thinking"
  /\ currentMode = "idle"
  /\ tickSilence = idleTimeout
  /\ decayLog = <<"thinking", "idle">>

RecognizedTools == {"Write", "Edit", "NotebookEdit", "Bash", "Read", "Grep",
                    "Glob", "Task", "WebFetch", "WebSearch"}

\* C8: for a PreToolUse event handleHookEvent makes exactly one call
\* emit('typing', 5000) for Write, Edit, NotebookEdit, emit('running', 10000)
\* for Bash, emit('thinking', 3000) for Read, Grep, Glob, Task, WebFetch,
\* WebSearch; for a Stop event exactly one call emit('celebrate', 2000);
\* whatever the other fields of the event are.
C8_ClassifierMapping ==
  opKind = "hook" =>
    /\ (opEvent.type = "PreToolUse" /\ opEvent.tool \in {"Write", "Edit", "NotebookEdit"})
         => opCalls = <<Call("typing", 5000)>>
    /\ (opEvent.type = "PreToolUse" /\ opEvent.tool = "Bash")
         => opCalls = <<Call("running", 10000)>>
    /\ (opEvent.type = "PreToolUse"
          /\ opEvent.tool \in {"Read", "Grep", "Glob", "Task", "WebFetch", "WebSearch"})
         => opCalls = <<Call("thinking", 3000)>>
    /\ opEvent.type = "Stop" => opCalls = <<Call("celebrate", 2000)>>

C8_Witness ==
  /\ opKind = "hook"
  /\ opEvent = [type |-> "PreToolUse", tool |-> "NotebookEdit", exitCode |-> 1]
  /\ opCalls = <<Call("typing", 5000)>>
  /\ currentMode = "typing"
  /\ modeExpiresAt = opTime + 5000

\* C9 (as claimed): every event whose type is Error, or whose exitCode is
\* present and non-zero, and which is neither a PreToolUse event with a
\* recognized tool nor a Stop event, results in exactly one call
\* emit('error', 2000).
C9_ErrorClassified ==
  (/\ opKind = "hook"
   /\ opEvent.type = "Error" \/ (opEvent.exitCode # NULL /\ opEvent.exitCode # 0)
   /\ ~(opEvent.type = "PreToolUse" /\ opEvent.tool \in RecognizedTools)
   /\ opEvent.type # "Stop")
  => opCalls = <<Call("error", 2000)>>

\* the step is a hook request whose event is e
HookStep(e) == opKind' = "hook" /\ opEvent' = e /\ Hook(e)

\* the step called nothing on the StateMachine and broadcast nothing
NoEffect ==
  /\ opCalls' = <<>>
  /\ opMsgs' = <<>>
  /\ opInvoked' = <<>>
  /\ UNCHANGED <<currentMode, lastEventTime, modeTTL, modeExpiresAt>>

\* C10 (as claimed): a PostToolUse event, a PreToolUse event with an
\* unrecognized or missing tool and an event with an unknown type make no
\* call into StateMachine and change nothing, whatever exitCode they carry.
C10_Original ==
  [][(/\ HookStep(opEvent')
      /\ \/ opEvent'.type = "PostToolUse"
         \/ opEvent'.type = "PreToolUse" /\ opEvent'.tool \notin RecognizedTools
         \/ opEvent'.type \notin {"PreToolUse", "PostToolUse", "Stop", "Error"})
     => NoEffect]_vars

\* C10 (amended): a PreToolUse event with an unrecognized or missing tool
\* (whatever its exitCode), and a PostToolUse event or an event with an
\* unknown type whose exitCode is absent or zero, make no call into
\* StateMachine: currentMode, lastEventTime and the protection window are
\* unchanged and nothing is broadcast.
C10_IgnoredEvents ==
  [][(/\ HookStep(opEvent')
      /\ \/ opEvent'.type = "PreToolUse" /\ opEvent'.tool \notin RecognizedTools
         \/ /\ \/ opEvent'.type = "PostToolUse"
               \/ opEvent'.type \notin {"PreToolUse", "PostToolUse", "Stop", "Error"}
            /\ opEvent'.exitCode = NULL \/ opEvent'.exitCode = 0)
     => NoEffect]_vars

C10_Witness ==
  /\ opKind = "hook"
  /\ opEvent = [type |-> "PreToolUse", tool |-> "LS", exitCode |-> 1]
  /\ opCalls = <<>>
  /\ currentMode = "celebrate"
  /\ modeExpiresAt = 2000
  /\ opTime = 500

\* C11: POST /hook answers 200 for every body that parses as JSON, the
\* values null, a number, a string and an array and an object of unknown
\* type included, and answers 400 only when the body fails to parse.
C11_ParsedBodyAnswers200 ==
  opKind = "post" =>
    /\ JSONparse(opBody).ok => opStatus = 200
    /\ opStatus = 400 => ~JSONparse(opBody).ok

\* C12: a POST /hook answered 400 has changed nothing: mode, lastEventTime,
\* protection window, connection set and the messages sent are as before,
\* and a GET /api/state that follows returns the mode from before it.
C12_BadRequestChangesNothing ==
  /\ []((opKind = "get" /\ prevBad # "none") => opResult = prevBad)
  /\ [][((\E body \in Bodies : PostHook(body)) /\ opStatus' = 400) =>
          /\ UNCHANGED <<smVars, tickInterval, hubVars, modeLog>>
          /\ opMsgs' = <<>>
          /\ opInvoked' = <<>>]_vars

C12_Witness ==
  /\ opKind = "get"
  /\ prevBad = "celebrate"
  /\ opResult = "celebrate"
  /\ clients = {1}
  /\ sent[1] = <<"idle", "celebrate">>

\* C13: a handshake whose token equals the configured token puts the socket
\* in the set and sends it one snapshot with the current mode, before
\* anything else; a handshake with another token or none is closed with
\* code 4001, the socket is never in the set and is never sent a message.
C13_TokenGate ==
  \A s \in SocketIds :
    readyState[s] # "NONE" =>
      IF urlToken[s] = ConfigToken
        THEN /\ closeCode[s] = NULL
             /\ sent[s] # <<>>
             /\ sent[s][1] = modeLog[joinedAt[s]]
             /\ (opKind = "connect" /\ opSocket = s) =>
                  (s \in clients /\ readyState[s] = "OPEN"
                     /\ sent[s] = <<currentMode>>)
        ELSE /\ closeCode[s] = InvalidTokenCode
             /\ readyState[s] # "OPEN"
             /\ s \notin clients
             /\ sent[s] = <<>>

C13_Witness ==
  /\ urlToken[1] = "Secret"
  /\ closeCode[1] = InvalidTokenCode
  /\ urlToken[2] = ConfigToken
  /\ sent[1] = <<>>
  /\ sent[2] = <<"running", "celebrate", "thinking">>
  /\ joinedAt[2] = 2

\* the last element of a non-empty sequence
Last(seq) == seq[Len(seq)]

\* C14: the modes sent to an authenticated connection that is open are the
\* mode at its handshake followed by every value currentMode has taken
\* since, one message per change, in order, whether emit or tick made the
\* change; so the last message sent to it carries StateMachine.mode.
C14_StreamFollowsMode ==
  \A s \in SocketIds :
    (urlToken[s] = ConfigToken /\ readyState[s] = "OPEN") =>
      /\ sent[s] = SubSeq(modeLog, joinedAt[s], Len(modeLog))
      /\ Last(sent[s]) = currentMode

C14_Witness ==
  /\ opKind = "tick"
  /\ readyState[1] = "OPEN"
  /\ readyState[2] = "OPEN"
  /\ sent[1] = <<"idle", "celebrate", "running", "thinking">>
  /\ sent[2] = <<"celebrate", "running", "thinking">>

\* C15: on every mode change each connection of the set that is open is
\* sent exactly one message with the new mode and each connection that is
\* not open is sent nothing; what was skipped is not sent later, and a
\* skipped connection does not keep the others from being served.
C15_FanOut ==
  [][/\ currentMode' # currentMode =>
          \A s \in SocketIds :
            sent'[s] = IF s \in clients /\ readyState[s] = "OPEN"
                         THEN Append(sent[s], currentMode')
                         ELSE sent[s]
     /\ \A s \in SocketIds :
          sent'[s] # sent[s] =>
            \/ readyState[s] = "NONE" /\ sent'[s] = <<currentMode>>
            \/ /\ currentMode' # currentMode
               /\ readyState[s] = "OPEN"
               /\ sent'[s] = Append(sent[s], currentMode')]_vars

C15_Witness ==
  /\ opKind = "post"
  /\ clients = {1, 2}
  /\ readyState[1] = "CLOSING"
  /\ readyState[2] = "OPEN"
  /\ sent[1] = <<"idle">>
  /\ sent[2] = <<"idle", "celebrate">>

\* C16: a connection leaves the set exactly when its own close or error
\* event fires, is sent nothing afterwards and never comes back; nothing
\* else removes it, so getClientCount() is the number of connections that
\* passed the token check and have had neither event.
C16_Removal ==
  /\ [](clients = {s \in SocketIds : /\ readyState[s] # "NONE"
                                     /\ urlToken[s] = ConfigToken
                                     /\ fired[s] = {}})
  /\ [][\A s \in SocketIds :
          /\ fired[s] # {} => (sent'[s] = sent[s] /\ s \notin clients')
          /\ (s \in clients /\ s \notin clients') =>
               (fired[s] = {} /\ fired'[s] # {} /\ opSocket' = s)]_vars

C16_Witness ==
  /\ fired[1] = {"close", "error"}
  /\ fired[2] = {}
  /\ clients = {2}
  /\ joinedAt[1] = 1
  /\ joinedAt[2] = 1
  /\ sent[1] = <<"idle">>
  /\ sent[2] = <<"idle", "running", "celebrate">>

\* C17: GET /api/state answers with the mode StateMachine.mode has at that
\* moment and changes nothing.
C17_ApiState ==
  /\ [](opKind = "get" => (opStatus = 200 /\ opResult = currentMode))
  /\ [][GetState => UNCHANGED <<smVars, tickInterval, onChangeHandlers,
                                hubVars, modeLog>>]_vars

C17_Witness ==
  /\ opKind = "get"
  /\ opResult = "thinking"
  /\ lastCall = Call("running", 10000)
  /\ clients # {}

\* C18: a text received from an authenticated client, be it a hello, any
\* other JSON value or no JSON at all, changes neither the machine nor the
\* set nor what is sent, and does not close the connection.
C18_InboundIgnored ==
  [][(\E s \in SocketIds, data \in Messages : WsMessage(s, data)) =>
       UNCHANGED <<smVars, tickInterval, onChangeHandlers, hubVars,
                   modeLog>>]_vars

C18_Witness ==
  /\ opKind = "message"
  /\ opBody = "null"
  /\ opResult = "caught"
  /\ opSocket = 2
  /\ readyState[2] = "OPEN"
  /\ clients = {1, 2}
  /\ currentMode = "celebrate"

\* C19: with any number of handlers registered, every mode change invokes
\* all of them, each once, in registration order, with the same new mode;
\* a handler registered after a change is not invoked for that change.
C19_AllHandlersInOrder ==
  /\ Len(got) = Len(onChangeHandlers)
  /\ \A i \in 1..Len(got) : got[i] = (Len(modeLog) - 1) - regAt[i]
  /\ opMsgs # <<>> =>
       /\ opMsgs[1].mode = currentMode
       /\ opInvoked = [i \in 1..Len(onChangeHandlers) |->
                         [handler |-> onChangeHandlers[i],
                          message |-> opMsgs[1]]]

C19_Witness ==
  /\ opKind = "tick"
  /\ currentMode = "thinking"
  /\ onChangeHandlers = <<1, 2>>
  /\ regAt = <<0, 1>>
  /\ got = <<2, 1>>
  /\ Len(opInvoked) = 2

\* C20: after destroy() no tick runs and currentMode changes only through
\* emit; a second destroy() changes nothing; an emit() after destroy()
\* still sets the mode and broadcasts when the mode changes.
C20_DestroyStopsTicking ==
  [][destroyed =>
       /\ ~Tick
       /\ currentMode' # currentMode => opKind' = "emit"
       /\ Destroy => UNCHANGED <<smVars, tickInterval, onChangeHandlers,
                                 destroyed>>
       /\ (\E mode \in Mode, ttl \in TTLs : Emit(mode, ttl)) =>
            /\ currentMode' = opCalls'[1].mode
            /\ (opMsgs' # <<>>) <=> (currentMode' # currentMode)]_vars

C20_Witness ==
  /\ destroyed
  /\ tickInterval = NULL
  /\ opKind = "emit"
  /\ opPre = "idle"
  /\ currentMode = "running"
  /\ opMsgs # <<>>
  /\ now - lastEventTime >= idleTimeout

\* the last tick found celebrate or error under a window still running
WasShielded ==
  /\ opPre \in {"celebrate", "error"}
  /\ opPreExpiresAt # NULL
  /\ opTime < opPreExpiresAt

\* C21 as stated: modeExpiresAt after a tick() equals modeExpiresAt before
\* it, in every reachable state.
C21_Original ==
  opKind = "tick" => modeExpiresAt = opPreExpiresAt

\* C21: a tick() leaves a window that has not run out as it is; the one
\* change a tick() makes to modeExpiresAt is to clear a window that has run
\* out (now >= modeExpiresAt).
C21_TickClearsOnlyExpired ==
  opKind = "tick" =>
    IF opPreExpiresAt # NULL /\ opTime >= opPreExpiresAt
      THEN modeExpiresAt = NULL /\ modeTTL = NULL
      ELSE modeExpiresAt = opPreExpiresAt

C21_Witness ==
  /\ opKind = "tick"
  /\ opPre = "typing"
  /\ currentMode = "thinking"
  /\ opPreExpiresAt = 5000
  /\ modeExpiresAt = 5000
  /\ opTime = thinkingTimeout

\* C22: after emit(mode, ttl) at time now, lastEventTime is now and
\* modeExpiresAt is now + ttl when ttl is given, 0 included, and cleared
\* when ttl is absent, whether or not mode is the current mode.
C22_EmitTiming ==
  opKind = "emit" =>
    /\ lastEventTime = opTime
    /\ modeExpiresAt = IF opCalls[1].ttl # NULL THEN opTime + opCalls[1].ttl
                                                ELSE NULL

\* C23 as stated: every tick() that is not shielded, with silence from
\* 3000ms up to 25000ms and a mode other than idle, leaves the mode
\* thinking and invokes the change handlers.
C23_Original ==
  (/\ opKind = "tick"
   /\ ~WasShielded
   /\ tickSilence >= thinkingTimeout
   /\ tickSilence < idleTimeout
   /\ opPre # "idle") =>
     (currentMode = "thinking" /\ opMsgs # <<>>)

\* C23: a tick() that is not shielded, with silence from 3000ms up to
\* 25000ms, turns every mode other than idle and thinking into thinking and
\* broadcasts once; with the mode idle or already thinking it changes
\* nothing and broadcasts nothing.
C23_ThinkingDecay ==
  (/\ opKind = "tick"
   /\ ~WasShielded
   /\ tickSilence >= thinkingTimeout
   /\ tickSilence < idleTimeout) =>
     IF opPre \in {"idle", "thinking"}
       THEN currentMode = opPre /\ opMsgs = <<>>
       ELSE /\ currentMode = "thinking"
            /\ Len(opMsgs) = 1
            /\ opMsgs[1].mode = "thinking"

C23_Witness ==
  /\ opKind = "tick"
  /\ opPre = "error"
  /\ opPreExpiresAt = NULL
  /\ tickSilence = thinkingTimeout
  /\ currentMode = "thinking"
  /\ opMsgs # <<>>

C25_Original ==
  (/\ opKind = "emit"
   /\ opPreExpiresAt # NULL
   /\ opTime < opPreExpiresAt) =>
     (modeExpiresAt = NULL \/ modeExpiresAt >= opPreExpiresAt)

\* C25: an emit() replaces the window whatever it was: without a ttl the
\* window is cleared, with a ttl above 0 it runs until now + ttl, which is
\* earlier than the window it replaces exactly when ttl is less than what
\* was left of that window.
C25_EmitReplacesWindow ==
  (/\ opKind = "emit"
   /\ opPreExpiresAt # NULL
   /\ opTime < opPreExpiresAt) =>
     /\ opCalls[1].ttl = NULL => modeExpiresAt = NULL
     /\ opCalls[1].ttl > 0 =>
          /\ modeExpiresAt = opTime + opCalls[1].ttl
          /\ (modeExpiresAt < opPreExpiresAt)
               <=> (opCalls[1].ttl < opPreExpiresAt - opTime)

C25_Witness ==
  /\ opKind = "emit"
  /\ opTime = 500
  /\ opPreExpiresAt = 30000
  /\ opCalls = <<Call("celebrate", 2000)>>
  /\ modeExpiresAt = 2500

C27_TickOnlyDecays ==
  opKind = "tick" =>
    /\ currentMode \in {opPre, "thinking", "idle"}
    /\ opPre = "idle" => currentMode = "idle"
    /\ lastEventTime = opTime - tickSilence
    /\ opMsgs # <<>> => opMsgs[1].mode \in {"thinking", "idle"}

C27_Witness ==
  /\ opKind = "tick"
  /\ opPre = "idle"
  /\ currentMode = "idle"
  /\ lastCall = Call("idle", 5000)
  /\ tickSilence = thinkingTimeout
  /\ opMsgs = <<>>

C29_SingleSocket ==
  /\ Cardinality(Live) <= 1
  /\ ~staleClear

\* C30: a delayed reset of the Store undoes only the event that scheduled
\* it: the reset of the mode after a session end, the clearing of lastError,
\* the clearing of currentTool and the removal of an agent never overwrite
\* what an event that arrived before the timer fired has set.
C30_ResetsUndoOwnEvent ==
  overwrote = {}

====
